---- MODULE Spec2Model ----
(***************************************************************************)
(* Model of ospd-ssh-keyscan (src/ospd_ssh_keyscan/wrapper.py): the        *)
(* availability check OSPDsshkeyscan.check and the per-scan callback       *)
(* OSPDsshkeyscan.exec_scan, which runs ssh-keyscan, parses its output     *)
(* line by line and reports host details, logs and errors to the result    *)
(* sink of the OSP daemon framework.                                       *)
(*                                                                         *)
(* The output check_output captures is taken as text (str), as the string  *)
(* operations of exec_scan take it to be.                                  *)
(* Text is a sequence of one-character strings.  A value reported to the   *)
(* sink is a sequence of text chunks: the fixed parts of a message are one *)
(* chunk each, the formatted parts are the characters they format to.      *)
(***************************************************************************)
EXTENDS Integers, Sequences, FiniteSets, TLC

VARIABLES frames, sink, chk

vars == <<frames, sink, chk>>

(***************************************************************************)
(* Bounds of the model.                                                    *)
(***************************************************************************)
\* the longest ssh-keyscan output, in lines, of the single-scan specifications
MaxLines == 2
\* the longest ssh-keyscan output, in lines, of the concurrent specification
MaxConcLines == 1

(***************************************************************************)
(* Program constants.                                                      *)
(***************************************************************************)
\* OSPD_PARAMS['sshport']['default']
DefaultPort == 22
\* exec_scan's return values
ScanFinished == 1
ScanFailed == 2

ScanIds == {"scan1", "scan2"}
Targets == {<<"t">>}
Ports == {DefaultPort, 2222}

(***************************************************************************)
(* Text helpers: the string operations exec_scan uses.                     *)
(***************************************************************************)
\* the characters str.split() treats as separators
IsSpace(c) == c \in {" ", "\t", "\n"}

\* '%d' % n for n >= 0
RECURSIVE IntToStr(_)
IntToStr(n) ==
    LET d == <<"0", "1", "2", "3", "4", "5", "6", "7", "8", "9">>
    IN IF n < 10 THEN <<d[n + 1]>> ELSE IntToStr(n \div 10) \o <<d[(n % 10) + 1]>>

\* sep.join(parts)
RECURSIVE Join(_, _)
Join(parts, sep) ==
    IF Len(parts) = 0 THEN <<>>
    ELSE IF Len(parts) = 1 THEN parts[1]
    ELSE parts[1] \o <<sep>> \o Join(Tail(parts), sep)

\* str.splitlines(): a line break ends a line, and no empty last line is
\* reported after a final line break
RECURSIVE SplitLinesFrom(_, _, _)
SplitLinesFrom(text, cur, acc) ==
    IF Len(text) = 0 THEN (IF Len(cur) = 0 THEN acc ELSE Append(acc, cur))
    ELSE IF Head(text) = "\n" THEN SplitLinesFrom(Tail(text), <<>>, Append(acc, cur))
    ELSE SplitLinesFrom(Tail(text), Append(cur, Head(text)), acc)

SplitLines(text) == SplitLinesFrom(text, <<>>, <<>>)

\* str.split() with no argument: the maximal runs of non-whitespace
RECURSIVE SplitFrom(_, _, _)
SplitFrom(text, cur, acc) ==
    IF Len(text) = 0 THEN (IF Len(cur) = 0 THEN acc ELSE Append(acc, cur))
    ELSE IF IsSpace(Head(text))
         THEN SplitFrom(Tail(text), <<>>, IF Len(cur) = 0 THEN acc ELSE Append(acc, cur))
    ELSE SplitFrom(Tail(text), Append(cur, Head(text)), acc)

Split(line) == SplitFrom(line, <<>>, <<>>)

(***************************************************************************)
(* The result sink of the framework: add_scan_host_detail, add_scan_log    *)
(* and add_scan_error each append one record for the given scan id.        *)
(***************************************************************************)
HostDetailRec(scan_id, host, name, value) ==
    [kind |-> "host_detail", scan_id |-> scan_id, host |-> host, name |-> name, value |-> value]

LogRec(scan_id, host, name, value) ==
    [kind |-> "log", scan_id |-> scan_id, host |-> host, name |-> name, value |-> value]

ErrorRec(scan_id, host, value) ==
    [kind |-> "error", scan_id |-> scan_id, host |-> host, name |-> "", value |-> value]

MsgExecProblem == <<"A problem occurred trying to execute 'ssh-keyscan'.">>
MsgResultEmpty == <<"The result of 'ssh-keyscan' was empty.">>
MsgParseErrorsHead == <<"The following lines caused parse errors:\n\n">>
MsgKeyDumpHead == <<"Via ssh-keyscan found keys:\n\n">>

\* '%d %s %s' % (port, keytype, key)
DetailValue(port, keytype, key) == IntToStr(port) \o <<" ">> \o keytype \o <<" ">> \o key

\* 'Via ssh-keyscan %d public ssh keys were found at port %d.' % (n, port)
SummaryValue(n, port) ==
    <<"Via ssh-keyscan ">> \o IntToStr(n)
        \o <<" public ssh keys were found at port ">> \o IntToStr(port) \o <<".">>

(***************************************************************************)
(* One invocation of exec_scan: its arguments, its options, the outcome of *)
(* the ssh-keyscan process it will observe, and its local variables.       *)
(***************************************************************************)
NoResult == [present |-> FALSE, text |-> <<>>]

IdleFrame(s) ==
    [pc |-> "idle", scan_id |-> s, target |-> <<>>, port |-> 0, aslog |-> FALSE,
     proc |-> [kind |-> "none", output |-> <<>>],
     result |-> NoResult, lines |-> <<>>, i |-> 0,
     key_data |-> <<>>, parse_errors |-> <<>>, ret |-> 0, exc |-> "none"]

EntryFrame(s, target, port, aslog, proc) ==
    [IdleFrame(s) EXCEPT !.pc = "call", !.target = target, !.port = port,
                         !.aslog = aslog, !.proc = proc]

Raise(f, e) == [f EXCEPT !.pc = "raised", !.exc = e]

Return(f, code) == [f EXCEPT !.pc = "returned", !.ret = code]

Terminated(f) == f.pc \in {"returned", "raised"}

(***************************************************************************)
(* exec_scan, one step per sink call.  A step takes the invocation's frame *)
(* and gives the next frame and the sink records the step reports.         *)
(***************************************************************************)
Out(f, calls) == [frame |-> f, calls |-> calls]

\* subprocess.check_output: the captured output of a process that exited
\* with status zero; CalledProcessError for another status (the output is
\* kept in the exception only); OSError when the process cannot be started
CheckOutput(proc) ==
    CASE proc.kind = "launch_failed" -> [exc |-> "OSError", result |-> NoResult]
      [] proc.kind = "exit_nonzero" -> [exc |-> "CalledProcessError", result |-> NoResult]
      [] proc.kind = "exit_zero" -> [exc |-> "none", result |-> [present |-> TRUE, text |-> proc.output]]
      [] proc.kind = "absent" -> [exc |-> "none", result |-> NoResult]

\* result is None
ResultIsNoneMutFalsy(result) == ~result.present \/ Len(result.text) = 0

ResultIsNone(result) == ~result.present

\* after line i: the next line, or the code after the loop
Advance(f) ==
    [f EXCEPT !.i = f.i + 1,
              !.pc = IF f.i + 1 > Len(f.lines) THEN "summary" ELSE "loop"]

\* get_scan_options, check_output, the None test and result.splitlines()
StepCall(f) ==
    LET r == CheckOutput(f.proc)
    IN IF r.exc # "none" THEN Out(Raise(f, r.exc), <<>>)
       ELSE IF ResultIsNone(r.result)
            THEN Out([f EXCEPT !.result = r.result, !.pc = "err1"], <<>>)
       ELSE LET ls == SplitLines(r.result.text)
            IN Out([f EXCEPT !.result = r.result, !.lines = ls, !.i = 1,
                             !.pc = IF Len(ls) = 0 THEN "summary" ELSE "loop"], <<>>)

\* the None branch: two errors for the target, then return 2
StepErr1(f) ==
    Out([f EXCEPT !.pc = "err2"], <<ErrorRec(f.scan_id, f.target, MsgExecProblem)>>)

StepErr2(f) ==
    Out(Return(f, ScanFailed), <<ErrorRec(f.scan_id, f.target, MsgResultEmpty)>>)

\* line[0] == '#', for a line that has a first character
IsCommentLineMutWholeLine(line) == line = <<"#">>

IsCommentLine(line) == line[1] = "#"

\* the body of the for loop, for line number f.i; line[0] of an empty
\* line raises IndexError, outside the try block
StepLoop(f) ==
    LET line == f.lines[f.i]
    IN IF Len(line) = 0 THEN Out(Raise(f, "IndexError"), <<>>)
       ELSE IF IsCommentLine(line) THEN Out(Advance(f), <<>>)
       ELSE LET toks == Split(line)
            IN IF Len(toks) # 3
               THEN Out(Advance([f EXCEPT !.parse_errors = Append(@, line)]), <<>>)
               ELSE Out(Advance([f EXCEPT !.key_data = Append(@, line)]),
                        <<HostDetailRec(f.scan_id, toks[1], "ssh-key",
                                        DetailValue(f.port, toks[2], toks[3]))>>)

\* what follows the summary log, and then the parse-error report
AfterErrors(f) == IF f.aslog THEN [f EXCEPT !.pc = "dump"] ELSE Return(f, ScanFinished)

AfterSummary(f) ==
    IF Len(f.parse_errors) > 0 THEN [f EXCEPT !.pc = "perr"] ELSE AfterErrors(f)

\* the unconditional summary log
StepSummaryMutOnlyWithKeys(f) ==
    Out(AfterSummary(f),
        IF Len(f.key_data) > 0
        THEN <<LogRec(f.scan_id, f.target, "ssh-keyscan summary",
                      SummaryValue(Len(f.key_data), f.port))>>
        ELSE <<>>)

StepSummary(f) ==
    Out(AfterSummary(f),
        <<LogRec(f.scan_id, f.target, "ssh-keyscan summary",
                 SummaryValue(Len(f.key_data), f.port))>>)

\* the aggregated parse-error report
StepParseErrors(f) ==
    Out(AfterErrors(f),
        <<ErrorRec(f.scan_id, f.target, MsgParseErrorsHead \o Join(f.parse_errors, "\n"))>>)

\* the optional key dump, and return 1
StepKeyDump(f) ==
    Out(Return(f, ScanFinished),
        <<LogRec(f.scan_id, f.target, "ssh-keyscan key dump",
                 MsgKeyDumpHead \o Join(f.key_data, "\n"))>>)

StepFrame(f) ==
    CASE f.pc = "call" -> StepCall(f)
      [] f.pc = "err1" -> StepErr1(f)
      [] f.pc = "err2" -> StepErr2(f)
      [] f.pc = "loop" -> StepLoop(f)
      [] f.pc = "summary" -> StepSummary(f)
      [] f.pc = "perr" -> StepParseErrors(f)
      [] f.pc = "dump" -> StepKeyDump(f)

\* exec_scan from entry to its return or to the exception that leaves it
RECURSIVE RunFrom(_, _)
RunFrom(f, calls) ==
    IF Terminated(f) THEN Out(f, calls)
    ELSE LET o == StepFrame(f) IN RunFrom(o.frame, calls \o o.calls)

RunScan(s, target, port, aslog, proc) == RunFrom(EntryFrame(s, target, port, aslog, proc), <<>>)

\* check(): False for OSError, True otherwise (CalledProcessError is passed)
CheckMutFailOnStatus(kind) == kind = "exit_zero"

Check(kind) ==
    LET r == CheckOutput([kind |-> kind, output |-> <<>>])
    IN IF r.exc = "OSError" THEN FALSE ELSE TRUE

(***************************************************************************)
(* The environment: what ssh-keyscan may print.                            *)
(***************************************************************************)
LineSamples ==
    { <<>>,                                         \* an empty line
      <<"#", " ", "c">>,                           \* a comment
      <<"#", "h", " ", "r", " ", "k">>,            \* a comment of three tokens
      <<"h", " ", "r", " ", "k">>,                 \* host keytype key
      <<"g", "\t", "e", " ", " ", "y">>,           \* another host, other separators
      <<"b">>,                                      \* one token
      <<"h", " ", "r", " ", "k", " ", "x">>,       \* four tokens
      <<" ">>,                                      \* no token
      <<" ", "#", "c">> }                           \* '#' is not the first character

ConcLineSamples ==
    { <<>>, <<"#", " ", "c">>, <<"h", " ", "r", " ", "k">>,
      <<"g", "\t", "e", " ", " ", "y">>, <<"b">> }

LineSeqs(samples, n) == UNION {[1..k -> samples] : k \in 0..n}

\* the lines, each but the last ended by a line break, the last one too if nl
Render(ls, nl) == Join(ls, "\n") \o (IF nl THEN <<"\n">> ELSE <<>>)

Outputs == {Render(ls, nl) : ls \in LineSeqs(LineSamples, MaxLines), nl \in BOOLEAN}

ConcOutputs == {Render(ls, TRUE) : ls \in LineSeqs(ConcLineSamples, MaxConcLines) \ {<<>>}} \cup {<<>>}

LaunchFailed == [kind |-> "launch_failed", output |-> <<>>]

ProcOutcomes ==
    [kind : {"exit_zero", "exit_nonzero"}, output : Outputs] \cup {LaunchFailed}

\* the output of a process that exits with a non-zero status is never read
ConcProcOutcomes ==
    [kind : {"exit_zero"}, output : ConcOutputs]
        \cup [kind : {"exit_nonzero"}, output : {<<>>, <<"h", " ", "r", " ", "k", "\n">>}]
        \cup {LaunchFailed}

\* a stand-in for check_output that may also hand back no output at all
StubProcOutcomes == ProcOutcomes \cup {[kind |-> "absent", output |-> <<>>]}

CheckKinds == {"exit_zero", "exit_nonzero", "launch_failed"}

(***************************************************************************)
(* State machine.                                                          *)
(***************************************************************************)
NoCheck == [done |-> FALSE, kind |-> "none", ret |-> FALSE]

Init ==
    /\ frames = [s \in ScanIds |-> IdleFrame(s)]
    /\ sink = <<>>
    /\ chk = NoCheck

\* key_data and parse_errors are locals of the call: a step of invocation s
\* changes the frame of s alone
StoreLocalsMutShared(fs, s, f) ==
    [t \in DOMAIN fs |->
        IF t = s THEN f
        ELSE IF fs[t].pc = "idle" THEN fs[t]
        ELSE [fs[t] EXCEPT !.key_data = f.key_data, !.parse_errors = f.parse_errors]]

StoreLocals(fs, s, f) == [fs EXCEPT ![s] = f]

\* the daemon's availability check
DoCheck ==
    /\ \E kind \in CheckKinds :
          chk' = [done |-> TRUE, kind |-> kind, ret |-> Check(kind)]
    /\ UNCHANGED <<frames, sink>>

\* one whole exec_scan call for scan s, the only scan of the run; the daemon
\* serves no scan once a check has answered False
ExecScanIn(s, outcomes) ==
    /\ chk.done => chk.ret
    /\ \A t \in ScanIds : frames[t].pc = "idle"
    /\ \E target \in Targets, port \in Ports, aslog \in BOOLEAN, proc \in outcomes :
          LET o == RunScan(s, target, port, aslog, proc)
          IN /\ frames' = StoreLocals(frames, s, o.frame)
             /\ sink' = sink \o o.calls
    /\ UNCHANGED chk

ExecScan(s) == ExecScanIn(s, ProcOutcomes)

ExecScanStub(s) == ExecScanIn(s, StubProcOutcomes)

Next == DoCheck \/ \E s \in ScanIds : ExecScan(s)

Spec == Init /\ [][Next]_vars

NextStub == DoCheck \/ \E s \in ScanIds : ExecScanStub(s)

SpecStub == Init /\ [][NextStub]_vars

\* the framework starts exec_scan for scan s
Begin(s) ==
    /\ frames[s].pc = "idle"
    /\ \E target \in Targets, aslog \in BOOLEAN, proc \in ConcProcOutcomes :
          frames' = StoreLocals(frames, s,
                       EntryFrame(s, target, IF s = "scan1" THEN DefaultPort ELSE 2222,
                                  aslog, proc))
    /\ UNCHANGED <<sink, chk>>

\* the running exec_scan of scan s takes its next step
Step(s) ==
    /\ frames[s].pc \notin {"idle", "returned", "raised"}
    /\ LET o == StepFrame(frames[s])
       IN /\ frames' = StoreLocals(frames, s, o.frame)
          /\ sink' = sink \o o.calls
    /\ UNCHANGED chk

NextConc == \E s \in ScanIds : Begin(s) \/ Step(s)

SpecConc == Init /\ [][NextConc]_vars

(***************************************************************************)
(* Vocabulary of the properties, stated on the raw output and on the sink. *)
(***************************************************************************)
WhiteSpace == {" ", "\t", "\n"}

\* the records the sink holds for scan s, in the order they were reported
Recs(s) == SelectSeq(sink, LAMBDA r : r.scan_id = s)

OfKind(recs, kind) == SelectSeq(recs, LAMBDA r : r.kind = kind)

Named(recs, name) == SelectSeq(recs, LAMBDA r : r.kind = "log" /\ r.name = name)

ParseReports(recs) ==
    SelectSeq(recs, LAMBDA r : r.kind = "error" /\ r.value[1] = "The following lines caused parse errors:\n\n")

IsPrefix(a, b) == Len(a) <= Len(b) /\ SubSeq(b, 1, Len(a)) = a

\* the positions where a whitespace-separated token of the line begins
TokenStarts(line) ==
    {i \in 1..Len(line) : line[i] \notin WhiteSpace /\ (i = 1 \/ line[i - 1] \in WhiteSpace)}

NumTokens(line) == Cardinality(TokenStarts(line))

\* the k-th token of a line of at least k tokens
Token(line, k) ==
    LET b == CHOOSE i \in TokenStarts(line) :
                 Cardinality({j \in TokenStarts(line) : j < i}) = k - 1
        e == CHOOSE j \in b..Len(line) :
                 /\ \A x \in b..j : line[x] \notin WhiteSpace
                 /\ (j = Len(line) \/ line[j + 1] \in WhiteSpace)
    IN SubSeq(line, b, e)

IsComment(line) == Len(line) > 0 /\ line[1] = "#"

\* 'host keytype key': three tokens, not a comment
IsKeyLine(line) == ~IsComment(line) /\ NumTokens(line) = 3

\* not a comment and not three tokens; the empty line is one of these
IsMalformed(line) == ~IsComment(line) /\ NumTokens(line) # 3

KeyLines(text) == SelectSeq(SplitLines(text), IsKeyLine)

MalformedLines(text) == SelectSeq(SplitLines(text), IsMalformed)

\* every line of the text starts with '#' (the empty text has no line)
ZeroNonComment(text) ==
    \A i \in 1..Len(text) : (i = 1 \/ text[i - 1] = "\n") => text[i] = "#"

\* the host details the key lines call for, in their order
ExpectedDetails(s, port, keylines) ==
    [k \in 1..Len(keylines) |->
        [kind |-> "host_detail", scan_id |-> s, host |-> Token(keylines[k], 1),
         name |-> "ssh-key",
         value |-> IntToStr(port) \o <<" ">> \o Token(keylines[k], 2)
                       \o <<" ">> \o Token(keylines[k], 3)]]

ExpectedParseReport(s, target, badlines) ==
    IF Len(badlines) = 0 THEN <<>>
    ELSE <<[kind |-> "error", scan_id |-> s, host |-> target, name |-> "",
            value |-> <<"The following lines caused parse errors:\n\n">> \o Join(badlines, "\n")]>>

ExpectedDump(s, target, keylines) ==
    <<[kind |-> "log", scan_id |-> s, host |-> target, name |-> "ssh-keyscan key dump",
       value |-> <<"Via ssh-keyscan found keys:\n\n">> \o Join(keylines, "\n")]>>

(***************************************************************************)
(* Properties.                                                             *)
(***************************************************************************)

\* C1: exec_scan always terminates by returning one of the scan-completion
\* codes, whatever the process did and whatever it printed: no exception
\* leaves the call.  (Violated: OSError, CalledProcessError and IndexError
\* leave exec_scan.)
C1_AlwaysReturnsCode ==
    \A s \in ScanIds :
        frames[s].pc # "idle" =>
            /\ frames[s].pc = "returned"
            /\ frames[s].ret \in {1, 2}

\* C2: an exec_scan call that returned the success code has reported exactly
\* one 'ssh-keyscan summary' log, for the target; and a call whose captured
\* output has no line other than comments returns the success code, so it
\* has reported that one summary too.
C2_SummaryOnSuccess ==
    \A s \in ScanIds :
        LET f == frames[s]
            sums == Named(Recs(s), "ssh-keyscan summary")
        IN /\ (f.pc = "returned" /\ f.ret = 1) =>
                  (Len(sums) = 1 /\ sums[1].host = f.target /\ sums[1].scan_id = s)
           /\ (f.proc.kind = "exit_zero" /\ ZeroNonComment(f.proc.output)) =>
                  (f.pc = "returned" /\ f.ret = 1)

\* a successful call on an output of comments only, with its one summary
\* and no host detail
C2_Witness ==
    \E s \in ScanIds :
        /\ frames[s].pc = "returned" /\ frames[s].ret = 1
        /\ Len(frames[s].proc.output) > 0
        /\ ZeroNonComment(frames[s].proc.output)
        /\ Len(Named(Recs(s), "ssh-keyscan summary")) = 1
        /\ Len(OfKind(Recs(s), "host_detail")) = 0

\* C3: every non-comment line that is not three tokens (the empty line
\* included) yields no host detail, does not stop the parsing of the other
\* lines, and is reported verbatim in one aggregated error for the target,
\* which exists exactly when there is such a line.  (Violated: an empty
\* line raises IndexError.)
C3_MalformedLinesReported ==
    \A s \in ScanIds :
        LET f == frames[s]
        IN f.proc.kind = "exit_zero" =>
              /\ f.pc = "returned"
              /\ ParseReports(Recs(s))
                    = ExpectedParseReport(s, f.target, MalformedLines(f.proc.output))
              /\ Len(OfKind(Recs(s), "host_detail")) = Len(KeyLines(f.proc.output))

\* C4: every line 'host keytype key' of the output yields exactly one host
\* detail 'ssh-key' with the value '<port> <keytype> <key>' for the parsed
\* host, in the order of the lines.  (Violated: the key lines after an empty
\* line are never reached.)
C4_HostDetailPerKeyLine ==
    \A s \in ScanIds :
        LET f == frames[s]
        IN f.proc.kind = "exit_zero" =>
              OfKind(Recs(s), "host_detail")
                  = ExpectedDetails(s, f.port, KeyLines(f.proc.output))

\* C5: an ssh-keyscan that exits with a non-zero status is handled as one
\* that exits with zero and printed the same: same records, same return
\* code.  (Violated: check_output raises CalledProcessError.)
C5_NonZeroExitAsSuccess ==
    \A s \in ScanIds :
        LET f == frames[s]
            ref == RunScan(s, f.target, f.port, f.aslog,
                           [kind |-> "exit_zero", output |-> f.proc.output])
        IN f.proc.kind = "exit_nonzero" =>
              /\ f.pc = ref.frame.pc
              /\ f.ret = ref.frame.ret
              /\ Recs(s) = ref.calls

\* C6: the 'ssh-keyscan key dump' log is reported if and only if sshkeyaslog
\* is set; when set, exactly one, for the target, whose body is the key
\* lines joined by line breaks in their order.  (Violated: no dump is
\* reported when an empty line raises IndexError.)
C6_KeyDumpIffOption ==
    \A s \in ScanIds :
        LET f == frames[s]
            dumps == Named(Recs(s), "ssh-keyscan key dump")
        IN f.proc.kind = "exit_zero" =>
              dumps = IF f.aslog THEN ExpectedDump(s, f.target, KeyLines(f.proc.output))
                      ELSE <<>>

\* C7: a line whose first character is '#' is skipped: it is in neither
\* accumulator, and the host details, the parse-error report, the key dump
\* and the count of the summary are those of the other lines alone.
C7_CommentLinesSkipped ==
    \A s \in ScanIds :
        LET f == frames[s]
            good == KeyLines(f.result.text)
            bad == MalformedLines(f.result.text)
            recs == Recs(s)
        IN (f.pc # "idle" /\ f.result.present) =>
              /\ \A k \in 1..Len(f.key_data) : ~IsComment(f.key_data[k])
              /\ \A k \in 1..Len(f.parse_errors) : ~IsComment(f.parse_errors[k])
              /\ IsPrefix(f.key_data, good)
              /\ IsPrefix(f.parse_errors, bad)
              /\ IsPrefix(OfKind(recs, "host_detail"), ExpectedDetails(s, f.port, good))
              /\ f.pc = "returned" =>
                    /\ OfKind(recs, "host_detail") = ExpectedDetails(s, f.port, good)
                    /\ ParseReports(recs) = ExpectedParseReport(s, f.target, bad)
                    /\ Named(recs, "ssh-keyscan key dump")
                          = IF f.aslog THEN ExpectedDump(s, f.target, good) ELSE <<>>
                    /\ \A k \in 1..Len(recs) :
                          recs[k].name = "ssh-keyscan summary" =>
                              SubSeq(recs[k].value, 1, 1 + Len(IntToStr(Len(good))))
                                  = <<"Via ssh-keyscan ">> \o IntToStr(Len(good))

\* a completed call, dumping keys, whose output had a comment and a key line
C7_Witness ==
    \E s \in ScanIds :
        /\ frames[s].pc = "returned"
        /\ frames[s].aslog
        /\ \E k \in 1..Len(frames[s].lines) : IsComment(frames[s].lines[k])
        /\ Len(frames[s].key_data) = 1
        /\ Len(OfKind(Recs(s), "host_detail")) = 1
        /\ Len(Named(Recs(s), "ssh-keyscan key dump")) = 1

\* C8: with no captured output at all, exec_scan reports exactly the two
\* errors for the target (execution problem, then empty result), nothing
\* else, and returns 2; an empty output that is present returns 1 and
\* reports no error.
C8_AbsentOutputFails ==
    \A s \in ScanIds :
        LET f == frames[s]
        IN /\ f.proc.kind = "absent" =>
                 /\ f.pc = "returned" /\ f.ret = 2
                 /\ Recs(s) = << [kind |-> "error", scan_id |-> s, host |-> f.target, name |-> "",
                                  value |-> <<"A problem occurred trying to execute 'ssh-keyscan'.">>],
                                 [kind |-> "error", scan_id |-> s, host |-> f.target, name |-> "",
                                  value |-> <<"The result of 'ssh-keyscan' was empty.">>] >>
           /\ (f.proc.kind = "exit_zero" /\ f.proc.output = <<>>) =>
                 /\ f.pc = "returned" /\ f.ret = 1
                 /\ Len(OfKind(Recs(s), "error")) = 0

\* a call that was handed no output and returned 2 after its two errors
C8_Witness ==
    \E s \in ScanIds :
        /\ frames[s].proc.kind = "absent"
        /\ frames[s].pc = "returned" /\ frames[s].ret = 2
        /\ Len(OfKind(Recs(s), "error")) = 2

\* C9: check returns False exactly when ssh-keyscan cannot be started, True
\* when it started, whatever its exit status; and it changes neither the
\* sink nor any scan.
C9_CheckResult ==
    /\ [](chk.done => (chk.ret = FALSE <=> chk.kind = "launch_failed"))
    /\ [][chk' # chk => (sink' = sink /\ frames' = frames)]_vars

\* a check that saw a non-zero exit status and answered True, made when the
\* sink already held the records of a scan
C9_Witness ==
    /\ chk.done /\ chk.kind = "exit_nonzero" /\ chk.ret = TRUE
    /\ Len(sink) > 0

\* C10: under every interleaving of two exec_scan calls, the records the
\* sink holds for a scan id are at every moment a prefix of, and at the end
\* equal to, the records of that call run alone, its outcome is that of the
\* call run alone, and every record carries the id of a started scan.
C10_NoInterference ==
    /\ \A k \in 1..Len(sink) : frames[sink[k].scan_id].pc # "idle"
    /\ \A s \in ScanIds :
          LET f == frames[s]
              alone == RunScan(s, f.target, f.port, f.aslog, f.proc)
          IN f.pc # "idle" =>
                /\ IsPrefix(Recs(s), alone.calls)
                /\ Terminated(f) =>
                      /\ Recs(s) = alone.calls
                      /\ f.pc = alone.frame.pc
                      /\ f.ret = alone.frame.ret
                      /\ f.exc = alone.frame.exc
                      /\ f.key_data = alone.frame.key_data
                      /\ f.parse_errors = alone.frame.parse_errors

\* both calls completed and their records alternate in the sink
C10_Witness ==
    /\ \A s \in ScanIds : frames[s].pc = "returned"
    /\ \E i, j, k \in 1..Len(sink) :
          /\ i < j /\ j < k
          /\ sink[i].scan_id = "scan1" /\ sink[j].scan_id = "scan2" /\ sink[k].scan_id = "scan1"
          /\ sink[i].kind = "host_detail" /\ sink[j].kind = "host_detail"

====
